---- MODULE Spec2Model ----
(***************************************************************************)
(* Model of ProjectTwo.cpp, the ABCU advising assistance program: the      *)
(* course-id normalizer, the quote-aware CSV splitter, the catalog loader  *)
(* and the two queries (course list, single course with prerequisites).    *)
(*                                                                         *)
(* A C++ std::string is a sequence of one-character strings.  The program  *)
(* never calls setlocale, so <cctype> works in the "C" locale on ASCII.    *)
(***************************************************************************)
EXTENDS Integers, Sequences, FiniteSets, TLC

VARIABLES
    loaded,      \* ProgramState::loaded
    courses,     \* ProgramState::courses: function key -> Course
    sortedKeys,  \* ProgramState::sortedKeys
    op,          \* the menu operation that ran last
    source,      \* the file the last load was given
    ret,         \* what the last loadCoursesFromFile returned
    cerr,        \* what the last operation wrote to cerr
    cout,        \* what the last operation wrote to cout
    cinReads,    \* the lines the last operation read from cin
    finds,       \* the table lookups the last operation made
    arg,         \* the input of the function under test
    res          \* the value the function under test returned

vars == << loaded, courses, sortedKeys, op, source, ret, cerr, cout,
           cinReads, finds, arg, res >>

(***************************************************************************)
(* Bounds of the model.                                                    *)
(***************************************************************************)
MaxLines == 2      \* lines of a generated input file
MaxIdLen == 3      \* length of a string given to normalizeCourseId
MaxFieldLen == 4   \* length of a line given to splitCSV

(***************************************************************************)
(* Characters.                                                             *)
(***************************************************************************)
\* The printable ASCII characters in code order, from code 32 on (code 96,
\* the grave accent, cannot be written in a string and is left out).
ascii ==
  <<
    " ", "!", "\"", "#", "$", "%", "&", "'", "(", ")", "*", "+", ",", "-", ".", "/",
    "0", "1", "2", "3", "4", "5", "6", "7", "8", "9", ":", ";", "<", "=", ">", "?",
    "@", "A", "B", "C", "D", "E", "F", "G", "H", "I", "J", "K", "L", "M", "N", "O",
    "P", "Q", "R", "S", "T", "U", "V", "W", "X", "Y", "Z", "[", "\\", "]", "^", "_" >>

asciiLow ==
  << "a", "b", "c", "d", "e", "f", "g", "h", "i", "j", "k", "l", "m", "n", "o",
    "p", "q", "r", "s", "t", "u", "v", "w", "x", "y", "z", "{", "|", "}", "~" >>

Char == { ascii[i] : i \in 1..Len(ascii) }
          \cup { asciiLow[i] : i \in 1..Len(asciiLow) } \cup { "\t" }

\* (unsigned char)ch: the character's code.
ord ==
    [c \in Char |->
        IF c = "\t" THEN 9
        ELSE IF \E i \in 1..Len(ascii) : ascii[i] = c
             THEN 31 + (CHOOSE i \in 1..Len(ascii) : ascii[i] = c)
             ELSE 96 + (CHOOSE i \in 1..Len(asciiLow) : asciiLow[i] = c)]

chr(n) == IF n <= 95 THEN ascii[n - 31] ELSE asciiLow[n - 96]

\* isspace in the "C" locale: space, \t, \n, \v, \f, \r.
isspace(c) == ord[c] \in {9, 10, 11, 12, 13, 32}

\* toupper in the "C" locale: 'a'..'z' to 'A'..'Z', every other character kept.
toupper(c) == IF ord[c] \in 97..122 THEN chr(ord[c] - 32) ELSE c

(***************************************************************************)
(* trim helpers.                                                           *)
(***************************************************************************)
RECURSIVE ltrimFrom(_, _)
ltrimFrom(s, i) ==
    IF i <= Len(s) /\ isspace(s[i]) THEN ltrimFrom(s, i + 1)
    ELSE SubSeq(s, i, Len(s))

ltrim(s) == ltrimFrom(s, 1)

RECURSIVE rtrimFrom(_, _)
rtrimFrom(s, i) ==
    IF isspace(s[i])
    THEN IF i = 1 THEN << >> ELSE rtrimFrom(s, i - 1)
    ELSE SubSeq(s, 1, i)

rtrim(s) == IF s = << >> THEN s ELSE rtrimFrom(s, Len(s))

trim(s) == rtrim(ltrim(s))

(***************************************************************************)
(* normalizeCourseId: drop whitespace, '-', '_' and ',', upper-case the    *)
(* rest, trim.                                                             *)
(***************************************************************************)
\* normalizeLoop with the comma forgotten in the list of dropped characters.
RECURSIVE normalizeLoopKeepsComma(_, _, _)
normalizeLoopKeepsComma(s, i, out) ==
    IF i > Len(s) THEN out
    ELSE IF isspace(s[i]) \/ s[i] = "-" \/ s[i] = "_"
         THEN normalizeLoopKeepsComma(s, i + 1, out)
         ELSE normalizeLoopKeepsComma(s, i + 1, Append(out, toupper(s[i])))

RECURSIVE normalizeLoop(_, _, _)
normalizeLoop(s, i, out) ==
    IF i > Len(s) THEN out
    ELSE IF isspace(s[i]) \/ s[i] = "-" \/ s[i] = "_" \/ s[i] = ","
         THEN normalizeLoop(s, i + 1, out)
         ELSE normalizeLoop(s, i + 1, Append(out, toupper(s[i])))

normalizeCourseId(s) == trim(normalizeLoop(s, 1, << >>))

(***************************************************************************)
(* splitCSV: the quote-aware splitter.  i is the 1-based loop index.       *)
(***************************************************************************)
\* splitLoop with the test of inQuotes forgotten where the comma splits.
RECURSIVE splitLoopIgnoresQuotes(_, _, _, _, _)
splitLoopIgnoresQuotes(line, i, cur, inQuotes, out) ==
    IF i > Len(line) THEN Append(out, trim(cur))
    ELSE IF line[i] = "\""
         THEN IF inQuotes /\ i + 1 <= Len(line) /\ line[i + 1] = "\""
              THEN splitLoopIgnoresQuotes(line, i + 2, Append(cur, "\""),
                                          inQuotes, out)
              ELSE splitLoopIgnoresQuotes(line, i + 1, cur, ~inQuotes, out)
         ELSE IF line[i] = ","
              THEN splitLoopIgnoresQuotes(line, i + 1, << >>, inQuotes,
                                          Append(out, trim(cur)))
              ELSE splitLoopIgnoresQuotes(line, i + 1, Append(cur, line[i]),
                                          inQuotes, out)

RECURSIVE splitLoop(_, _, _, _, _)
splitLoop(line, i, cur, inQuotes, out) ==
    IF i > Len(line) THEN Append(out, trim(cur))
    ELSE IF line[i] = "\""
         THEN IF inQuotes /\ i + 1 <= Len(line) /\ line[i + 1] = "\""
              THEN splitLoop(line, i + 2, Append(cur, "\""), inQuotes, out)
              ELSE splitLoop(line, i + 1, cur, ~inQuotes, out)
         ELSE IF line[i] = "," /\ ~inQuotes
              THEN splitLoop(line, i + 1, << >>, inQuotes, Append(out, trim(cur)))
              ELSE splitLoop(line, i + 1, Append(cur, line[i]), inQuotes, out)

splitCSV(line) == splitLoop(line, 1, << >>, FALSE, << >>)

(***************************************************************************)
(* The course table.  An unordered_map<string, Course> is a function from  *)
(* its keys to Course records; the empty map is the empty function.        *)
(***************************************************************************)
emptyTable == << >>

\* tablePut as insert() would do it: an entry already under key is kept.
tablePutKeepsFirst(t, key, c) ==
    [k \in (DOMAIN t) \cup {key} |-> IF k \in DOMAIN t THEN t[k] ELSE c]

\* newTable[key] = c: insert, or overwrite the entry already under key.
tablePut(t, key, c) ==
    [k \in (DOMAIN t) \cup {key} |-> IF k = key THEN c ELSE t[k]]

\* std::string operator<: bytewise lexicographic, a proper prefix is smaller.
RECURSIVE strLessFrom(_, _, _)
strLessFrom(a, b, i) ==
    IF i > Len(b) THEN FALSE
    ELSE IF i > Len(a) THEN TRUE
    ELSE IF ord[a[i]] # ord[b[i]] THEN ord[a[i]] < ord[b[i]]
    ELSE strLessFrom(a, b, i + 1)

strLess(a, b) == strLessFrom(a, b, 1)

\* The keys in the order the table's iteration hands them out.
RECURSIVE iterationOrder(_)
iterationOrder(keys) ==
    IF keys = {} THEN << >>
    ELSE LET k == CHOOSE x \in keys : TRUE
         IN  << k >> \o iterationOrder(keys \ {k})

\* buildSortedKeys with the comparison turned round.
buildSortedKeysDescending(t) ==
    SortSeq(iterationOrder(DOMAIN t), LAMBDA a, b : strLess(b, a))

\* sortedKeys after clear, push_back of every key, and sort.
buildSortedKeys(t) == SortSeq(iterationOrder(DOMAIN t), strLess)

(***************************************************************************)
(* loadCoursesFromFile.  A source is what the file name leads to: whether  *)
(* the ifstream opens, the lines getline delivers, and whether getline     *)
(* stopped on a read error (bad) instead of on the end of the file.        *)
(***************************************************************************)
\* The prerequisite loop: fields 2..n normalized, the empty ones dropped.
RECURSIVE prereqLoop(_, _, _)
prereqLoop(fields, i, acc) ==
    IF i > Len(fields) THEN acc
    ELSE LET p == normalizeCourseId(fields[i])
         IN  prereqLoop(fields, i + 1, IF p # << >> THEN Append(acc, p) ELSE acc)

\* Course c of one line with at least two fields.
makeCourse(fields) ==
    [ number        |-> normalizeCourseId(fields[1]),
      title         |-> fields[2],
      prereqNumbers |-> prereqLoop(fields, 3, << >>) ]

\* One message on cout: what is said, and the id, title or count it carries.
say(kind, id, title, n) == << kind, id, title, n >>

\* One message on cerr: what is said, and the line number it cites.
warn(kind, lineNum) == << kind, lineNum >>

\* readLoop with break where the malformed line should continue.
RECURSIVE readLoopStopsAtMalformed(_, _, _, _)
readLoopStopsAtMalformed(lines, lineNum, newTable, warns) ==
    IF lineNum > Len(lines) THEN [table |-> newTable, cerr |-> warns]
    ELSE LET line == trim(lines[lineNum]) IN
         IF line = << >>
         THEN readLoopStopsAtMalformed(lines, lineNum + 1, newTable, warns)
         ELSE LET fields == splitCSV(line) IN
              IF Len(fields) < 2
              THEN [table |-> newTable,
                    cerr  |-> Append(warns, warn("malformed", lineNum))]
              ELSE LET c == makeCourse(fields) IN
                   readLoopStopsAtMalformed(lines, lineNum + 1,
                            IF c.number # << >>
                            THEN tablePut(newTable, c.number, c)
                            ELSE newTable,
                            warns)

\* while (getline(in, line)) over the lines delivered; lineNum is the number
\* of the line being read, newTable and warns what the loop has built so far.
RECURSIVE readLoop(_, _, _, _)
readLoop(lines, lineNum, newTable, warns) ==
    IF lineNum > Len(lines) THEN [table |-> newTable, cerr |-> warns]
    ELSE LET line == trim(lines[lineNum]) IN
         IF line = << >> THEN readLoop(lines, lineNum + 1, newTable, warns)
         ELSE LET fields == splitCSV(line) IN
              IF Len(fields) < 2
              THEN readLoop(lines, lineNum + 1, newTable,
                            Append(warns, warn("malformed", lineNum)))
              ELSE LET c == makeCourse(fields) IN
                   readLoop(lines, lineNum + 1,
                            IF c.number # << >>
                            THEN tablePut(newTable, c.number, c)
                            ELSE newTable,
                            warns)

\* loadCoursesFromFile with the table given up before the open is tested.
loadClearsBeforeOpen(src, st) ==
    IF ~src.opens
    THEN [ loaded |-> st.loaded, courses |-> emptyTable,
           sortedKeys |-> << >>, ret |-> FALSE,
           cerr |-> << warn("open", 0) >>, cout |-> << >> ]
    ELSE LET r == readLoop(src.lines, 1, emptyTable, << >>)
         IN  [ loaded |-> TRUE, courses |-> r.table,
               sortedKeys |-> buildSortedKeys(r.table), ret |-> TRUE,
               cerr |-> r.cerr,
               cout |-> << say("loaded", << >>, << >>,
                                Cardinality(DOMAIN r.table)) >> ]

\* The state and the outputs the call leaves; st is the ProgramState given.
loadCoursesFromFile(src, st) ==
    IF ~src.opens
    THEN [ loaded |-> st.loaded, courses |-> st.courses,
           sortedKeys |-> st.sortedKeys, ret |-> FALSE,
           cerr |-> << warn("open", 0) >>, cout |-> << >> ]
    ELSE LET r == readLoop(src.lines, 1, emptyTable, << >>)
         IN  [ loaded |-> TRUE, courses |-> r.table,
               sortedKeys |-> buildSortedKeys(r.table), ret |-> TRUE,
               cerr |-> r.cerr,
               cout |-> << say("loaded", << >>, << >>,
                                Cardinality(DOMAIN r.table)) >> ]

(***************************************************************************)
(* printCourseList.                                                        *)
(***************************************************************************)
\* "Please load the data first (Option 1)."
pleaseLoad == << say("notLoaded", << >>, << >>, 0) >>

\* The for loop over sortedKeys; courses.at(id) throws on an absent key.
RECURSIVE listLoop(_, _, _, _)
listLoop(st, i, out, nFinds) ==
    IF i > Len(st.sortedKeys) THEN [cout |-> out, finds |-> nFinds]
    ELSE LET id == st.sortedKeys[i] IN
         IF id \notin DOMAIN st.courses
         THEN [cout  |-> Append(out, say("out_of_range", id, << >>, 0)),
               finds |-> nFinds + 1]
         ELSE listLoop(st, i + 1,
                       Append(out, say("course", id, st.courses[id].title, 0)),
                       nFinds + 1)

\* printCourseList without the test of loaded.
printCourseListUngated(st) == listLoop(st, 1, << >>, 0)

printCourseList(st) ==
    IF ~st.loaded
    THEN [cout |-> pleaseLoad, finds |-> 0]
    ELSE listLoop(st, 1, << >>, 0)

(***************************************************************************)
(* printSingleCourse.  typed is the line the user would type at the        *)
(* prompt; it is read only when the code reaches getline(cin, query).      *)
(***************************************************************************)
\* The for loop over c.prereqNumbers.
\* prereqOut that prints nothing for a prerequisite missing from the table.
RECURSIVE prereqOutSkipsMissing(_, _, _, _, _)
prereqOutSkipsMissing(st, c, i, out, nFinds) ==
    IF i > Len(c.prereqNumbers) THEN [cout |-> out, finds |-> nFinds]
    ELSE LET pid == c.prereqNumbers[i] IN
         prereqOutSkipsMissing(st, c, i + 1,
                   IF pid \in DOMAIN st.courses
                   THEN Append(out, say("prereq", st.courses[pid].number,
                                        st.courses[pid].title, 0))
                   ELSE out,
                   nFinds + 1)

RECURSIVE prereqOut(_, _, _, _, _)
prereqOut(st, c, i, out, nFinds) ==
    IF i > Len(c.prereqNumbers) THEN [cout |-> out, finds |-> nFinds]
    ELSE LET pid == c.prereqNumbers[i] IN
         prereqOut(st, c, i + 1,
                   Append(out,
                          IF pid \in DOMAIN st.courses
                          THEN say("prereq", st.courses[pid].number,
                                   st.courses[pid].title, 0)
                          ELSE say("missing", pid, << >>, 0)),
                   nFinds + 1)

printSingleCourse(st, typed) ==
    LET query == normalizeCourseId(typed)
        read  == IF st.loaded THEN << typed >> ELSE << >>
    IN  IF ~st.loaded
        THEN [cout |-> pleaseLoad, cinReads |-> read, finds |-> 0]
        ELSE IF query = << >>
        THEN [cout |-> << say("noCourse", << >>, << >>, 0) >>,
              cinReads |-> read, finds |-> 0]
        ELSE IF query \notin DOMAIN st.courses
        THEN [cout |-> << say("notFound", << >>, << >>, 0) >>,
              cinReads |-> read, finds |-> 1]
        ELSE LET c    == st.courses[query]
                 head == << say("course", c.number, c.title, 0) >>
             IN  IF c.prereqNumbers = << >>
                 THEN [cout |-> Append(head, say("prereqNone", << >>, << >>, 0)),
                       cinReads |-> read, finds |-> 1]
                 ELSE LET r == prereqOut(st, c, 1, head, 1)
                      IN  [cout |-> r.cout, cinReads |-> read,
                           finds |-> r.finds]

(***************************************************************************)
(* The inputs.                                                             *)
(***************************************************************************)
\* All strings over alphabet of length at most n.
StringsUpTo(alphabet, n) ==
    UNION { [1..k -> alphabet] : k \in 0..n }

\* The input lines the files are made of.
Lines ==
    { << "A", "1", ",", "X" >>,                          \* A1,X
      << "a", "-", "1", ",", "Y", ",", "B", "2" >>,      \* a-1,Y,B2
      << "B", "2", ",", "Z", ",", ",", "a", "1", ",", "C", "9" >>, \* B2,Z,,a1,C9
      << "\"", "B", ",", "2", "\"", ",", "\"", "Y", ",", "Y", "\"" >>, \* "B,2","Y,Y"
      << "A", "1" >>,                                    \* A1
      << " ", "-", " ", ",", "T" >>,                     \*  - ,T
      << " " >>,                                         \* a blank line
      << >> }                                            \* an empty line

\* Five valid lines with distinct keys and two lines of one field.
exampleFile ==
    << << "C", "1", ",", "P" >>, << "C", "2" >>, << "C", "3", ",", "Q" >>,
       << "C", "4", ",", "R" >>, << "x" >>, << "C", "5", ",", "S", ",", "C", "1" >>,
       << "C", "6", ",", "T" >> >>

Files == StringsUpTo(Lines, MaxLines) \cup { exampleFile }

noSource == [opens |-> FALSE, lines |-> << >>, bad |-> FALSE]

Sources ==
    { noSource } \cup { [opens |-> TRUE, lines |-> f, bad |-> b] :
                        f \in Files, b \in BOOLEAN }

\* What the user types at the course prompt.
Queries ==
    { << >>, << " ", " " >>, << "a", "1" >>, << " ", "b", "-", "2" >>,
      << "C", "9" >>, << "c", "_", "5" >> }

(***************************************************************************)
(* The menu loop of main: one action per choice.                           *)
(***************************************************************************)
state == [loaded |-> loaded, courses |-> courses, sortedKeys |-> sortedKeys]

Init ==
    /\ loaded = FALSE
    /\ courses = emptyTable
    /\ sortedKeys = << >>
    /\ op = "start"
    /\ source = noSource
    /\ ret = FALSE
    /\ cerr = << >>
    /\ cout = << >>
    /\ cinReads = << >>
    /\ finds = 0
    /\ arg = << >>
    /\ res = << >>

\* choice == 1
Load(src) ==
    \E r \in { loadCoursesFromFile(src, state) } :
    /\ loaded' = r.loaded
    /\ courses' = r.courses
    /\ sortedKeys' = r.sortedKeys
    /\ op' = "load"
    /\ source' = src
    /\ ret' = r.ret
    /\ cerr' = r.cerr
    /\ cout' = r.cout
    /\ cinReads' = << >>
    /\ finds' = 0
    /\ UNCHANGED << arg, res >>

\* choice == 2
List ==
    \E r \in { printCourseList(state) } :
    /\ op' = "list"
    /\ cout' = r.cout
    /\ finds' = r.finds
    /\ cerr' = << >>
    /\ cinReads' = << >>
    /\ UNCHANGED << loaded, courses, sortedKeys, source, ret, arg, res >>

\* choice == 3
Describe(typed) ==
    \E r \in { printSingleCourse(state, typed) } :
    /\ op' = "describe"
    /\ cout' = r.cout
    /\ finds' = r.finds
    /\ cinReads' = r.cinReads
    /\ cerr' = << >>
    /\ UNCHANGED << loaded, courses, sortedKeys, source, ret, arg, res >>

\* choice == 1 answered with a blank file name: nothing is loaded.
NoFileName ==
    /\ op' = "noFileName"
    /\ cout' = << say("noFileName", << >>, << >>, 0) >>
    /\ finds' = 0
    /\ cerr' = << >>
    /\ cinReads' = << >>
    /\ UNCHANGED << loaded, courses, sortedKeys, source, ret, arg, res >>

\* Any choice other than 1, 2, 3 and 9.
InvalidOption ==
    /\ op' = "invalid"
    /\ cout' = << say("invalidOption", << >>, << >>, 0) >>
    /\ finds' = 0
    /\ cerr' = << >>
    /\ cinReads' = << >>
    /\ UNCHANGED << loaded, courses, sortedKeys, source, ret, arg, res >>

Next ==
    \/ \E src \in Sources : Load(src)
    \/ NoFileName
    \/ List
    \/ \E typed \in Queries : Describe(typed)
    \/ InvalidOption

Spec == Init /\ [][Next]_vars

(***************************************************************************)
(* normalizeCourseId on its own: every short string over the characters it *)
(* treats differently is normalized, loaded as the identifier and the      *)
(* prerequisite of a one-line file, and asked for at the course prompt.    *)
(***************************************************************************)
IdChars == { "a", "B", "1", " ", "\t", "-", "_", "," }

\* The one-line file  <arg>,T,<arg>.
idFile(s) == << s \o << ",", "T", "," >> \o s >>

InitNorm ==
    /\ loaded = FALSE
    /\ courses = emptyTable
    /\ sortedKeys = << >>
    /\ op = "start"
    /\ source = noSource
    /\ ret = FALSE
    /\ cerr = << >>
    /\ cout = << >>
    /\ cinReads = << >>
    /\ finds = 0
    /\ arg \in StringsUpTo(IdChars, MaxIdLen)
    /\ res = << >>

Normalize ==
    /\ op' = "normalize"
    /\ res' = normalizeCourseId(arg)
    /\ UNCHANGED << loaded, courses, sortedKeys, source, ret, cerr, cout,
                    cinReads, finds, arg >>

NextNorm ==
    \/ Normalize
    \/ Load([opens |-> TRUE, lines |-> idFile(arg), bad |-> FALSE])
    \/ \E typed \in {arg} \cup { courses[k].number : k \in DOMAIN courses } :
           Describe(typed)

SpecNorm == InitNorm /\ [][NextNorm]_vars

(***************************************************************************)
(* splitCSV on its own: every short line over a letter, the comma, the     *)
(* quote and the space is split.                                           *)
(***************************************************************************)
CsvChars == { "a", ",", "\"", " " }

InitCSV ==
    /\ loaded = FALSE
    /\ courses = emptyTable
    /\ sortedKeys = << >>
    /\ op = "start"
    /\ source = noSource
    /\ ret = FALSE
    /\ cerr = << >>
    /\ cout = << >>
    /\ cinReads = << >>
    /\ finds = 0
    /\ arg \in StringsUpTo(CsvChars, MaxFieldLen)
    /\ res = << >>

Split ==
    /\ op' = "split"
    /\ res' = splitCSV(arg)
    /\ UNCHANGED << loaded, courses, sortedKeys, source, ret, cerr, cout,
                    cinReads, finds, arg >>

NextCSV == Split

SpecCSV == InitCSV /\ [][NextCSV]_vars

(***************************************************************************)
(* Notions the properties are stated with.                                 *)
(***************************************************************************)
\* How many positions of sequence s satisfy P.
countIn(s, P(_)) == Cardinality({ i \in 1..Len(s) : P(s[i]) })

\* All fields of a field list, one after the other.
RECURSIVE concat(_)
concat(fields) ==
    IF fields = << >> THEN << >> ELSE Head(fields) \o concat(Tail(fields))

isQuote(c) == c = "\""
isComma(c) == c = ","
isText(c)  == ~isQuote(c) /\ ~isComma(c) /\ ~isspace(c)

\* Position i of line lies inside a quoted span: an odd number of quote
\* characters precedes it (an escaped pair counts two and changes nothing).
insideQuotes(line, i) ==
    Cardinality({ j \in 1..(i - 1) : isQuote(line[j]) }) % 2 = 1

\* The commas of line that lie outside every quoted span.
outsideCommas(line) ==
    { i \in 1..Len(line) : isComma(line[i]) /\ ~insideQuotes(line, i) }

\* Where the run of consecutive quote characters holding position j begins.
runStart(line, j) ==
    CHOOSE i \in 1..j :
        /\ \A k \in i..j : isQuote(line[k])
        /\ (i = 1 \/ ~isQuote(line[i - 1]))

\* The quote characters that close an escaped pair.  A run of quotes that
\* begins inside a span pairs up from its first character; a run that begins
\* outside opens the span with its first character and pairs up the rest.
escapedQuotes(line) ==
    { j \in 1..Len(line) :
        /\ isQuote(line[j])
        /\ LET i == runStart(line, j)
               d == j - i
           IN  IF insideQuotes(line, i) THEN d % 2 = 1
               ELSE d >= 2 /\ d % 2 = 0 }

\* A quote is left open at the end of line.
unterminated(line) == insideQuotes(line, Len(line) + 1)

(***************************************************************************)
(* C9.  For every line, splitCSV yields exactly one field more than the    *)
(* line has commas outside quoted spans (so at least one field); commas    *)
(* inside quoted spans stay in the field text, the delimiting quotes do    *)
(* not, every escaped pair of quotes leaves one literal quote, all other   *)
(* text is kept in order, and a line whose quote is never closed is split  *)
(* like the same line with the closing quote added at its end.             *)
(***************************************************************************)
C9_SplitFields ==
    op = "split" =>
        /\ Len(res) = 1 + Cardinality(outsideCommas(arg))
        /\ Len(res) >= 1
        /\ countIn(concat(res), isComma)
               = countIn(arg, isComma) - Cardinality(outsideCommas(arg))
        /\ countIn(concat(res), isQuote) = Cardinality(escapedQuotes(arg))
        /\ SelectSeq(concat(res), isText) = SelectSeq(arg, isText)
        /\ unterminated(arg) => res = splitCSV(Append(arg, "\""))

\* The line  ",""  : an opening quote, a comma inside the span, an escaped
\* pair, and no closing quote; it is one field, the text  ,"
C9_Witness ==
    /\ op = "split"
    /\ arg = << "\"", ",", "\"", "\"" >>
    /\ res = << << ",", "\"" >> >>

(***************************************************************************)
(* C10.  normalizeCourseId is idempotent; its result holds no whitespace,  *)
(* hyphen, underscore, comma or lower-case letter; the empty string is     *)
(* normalized to itself; so every key of the table is a fixed point, every *)
(* course is stored under its own number, and asking for a stored number   *)
(* finds that course.                                                      *)
(***************************************************************************)
isLower(c) == ord[c] \in 97..122

cleanId(s) ==
    \A i \in 1..Len(s) :
        ~isspace(s[i]) /\ s[i] \notin { "-", "_", "," } /\ ~isLower(s[i])

C10_NormalizeIdempotent ==
    /\ op = "normalize" =>
           /\ normalizeCourseId(res) = res
           /\ cleanId(res)
           /\ (arg = << >> => res = << >>)
    /\ \A k \in DOMAIN courses :
           /\ normalizeCourseId(k) = k
           /\ cleanId(k)
           /\ courses[k].number = k
    /\ (op = "describe" /\ loaded /\ cinReads # << >>
            /\ \E k \in DOMAIN courses : courses[k].number = cinReads[1])
           => cout[1] = say("course", cinReads[1],
                            courses[cinReads[1]].title, 0)

\* " a-" is normalized to "A": whitespace and hyphen dropped, letter raised.
C10_Witness ==
    /\ op = "normalize"
    /\ arg = << " ", "a", "-" >>
    /\ res = << "A" >>

(***************************************************************************)
(* Notions about the lines of a source.                                    *)
(***************************************************************************)
fieldsOf(raw) == splitCSV(trim(raw))

blankLine(raw) == trim(raw) = << >>

\* A non-blank line of fewer than two fields.
shortLine(raw) == ~blankLine(raw) /\ Len(fieldsOf(raw)) < 2

\* A line of at least two fields whose identifier normalizes to nothing.
noIdLine(raw) ==
    /\ ~blankLine(raw)
    /\ Len(fieldsOf(raw)) >= 2
    /\ normalizeCourseId(fieldsOf(raw)[1]) = << >>

\* A well-formed line: at least two fields and an identifier.
validLine(raw) ==
    /\ ~blankLine(raw)
    /\ Len(fieldsOf(raw)) >= 2
    /\ normalizeCourseId(fieldsOf(raw)[1]) # << >>

keyOf(raw) == normalizeCourseId(fieldsOf(raw)[1])

\* The positions of lines, ascending, whose line satisfies P.
positions(lines, P(_)) ==
    SelectSeq([i \in 1..Len(lines) |-> i], LAMBDA i : P(lines[i]))

\* a comes before b in bytewise lexicographic order.
lexLess(a, b) ==
    \E i \in 1..Len(b) :
        /\ \A j \in 1..(i - 1) : j <= Len(a) /\ a[j] = b[j]
        /\ (i > Len(a) \/ (i <= Len(a) /\ ord[a[i]] < ord[b[i]]))

catalogUnchanged ==
    /\ loaded' = loaded
    /\ courses' = courses
    /\ sortedKeys' = sortedKeys

(***************************************************************************)
(* C1.  A load whose source cannot be opened returns failure and leaves    *)
(* the table, the sorted keys and the loaded flag as they were; while no   *)
(* load has succeeded the catalog is empty and not loaded.                 *)
(***************************************************************************)
C1_OpenFailurePreservesCatalog ==
    [][ /\ (op' = "load" /\ ~source'.opens) => (ret' = FALSE /\ catalogUnchanged)
        /\ ~loaded' => (courses' = emptyTable /\ sortedKeys' = << >>)
      ]_vars

\* A failed load after a load that filled the table.
C1_Witness ==
    /\ op = "load"
    /\ ~source.opens
    /\ ret = FALSE
    /\ loaded
    /\ Cardinality(DOMAIN courses) = 2

(***************************************************************************)
(* C2.  Whenever loaded, sortedKeys is strictly ascending and holds        *)
(* exactly the keys of the table, and the course list prints every course  *)
(* once, in that order, whatever the order of the lines of the input.      *)
(***************************************************************************)
C2_SortedKeysAscending ==
    loaded =>
        /\ \A i \in 1..(Len(sortedKeys) - 1) :
               lexLess(sortedKeys[i], sortedKeys[i + 1])
        /\ { sortedKeys[i] : i \in 1..Len(sortedKeys) } = DOMAIN courses
        /\ Len(sortedKeys) = Cardinality(DOMAIN courses)
        /\ op = "list" =>
               /\ Len(cout) = Cardinality(DOMAIN courses)
               /\ finds = Len(cout)
               /\ \A i \in 1..Len(cout) :
                      cout[i] = say("course", sortedKeys[i],
                                    courses[sortedKeys[i]].title, 0)

\* The list of a file whose lines come in descending key order.
C2_Witness ==
    /\ op = "list"
    /\ loaded
    /\ Len(source.lines) = 2
    /\ validLine(source.lines[1])
    /\ validLine(source.lines[2])
    /\ lexLess(keyOf(source.lines[2]), keyOf(source.lines[1]))
    /\ Len(cout) = 2

(***************************************************************************)
(* C3.  Last write wins: after a load of a fully read source, the entry of *)
(* every key is the course of the last well-formed line with that key,     *)
(* title and prerequisites, nothing of an earlier line; the key is there   *)
(* once, and no warning cites a well-formed line.                          *)
(***************************************************************************)
C3_LastWriteWins ==
    (op = "load" /\ source.opens /\ ~source.bad) =>
        /\ \A i \in 1..Len(source.lines) :
               validLine(source.lines[i]) =>
                   LET key  == keyOf(source.lines[i])
                       last == CHOOSE j \in i..Len(source.lines) :
                                   /\ validLine(source.lines[j])
                                   /\ keyOf(source.lines[j]) = key
                                   /\ \A m \in (j + 1)..Len(source.lines) :
                                          ~(validLine(source.lines[m])
                                            /\ keyOf(source.lines[m]) = key)
                   IN  /\ key \in DOMAIN courses
                       /\ courses[key] = makeCourse(fieldsOf(source.lines[last]))
                       /\ Cardinality({ n \in 1..Len(sortedKeys) :
                                          sortedKeys[n] = key }) = 1
        /\ \A w \in 1..Len(cerr) : ~validLine(source.lines[cerr[w][2]])

\* "A1,X" then "a-1,Y,B2": one entry A1, titled Y, with prerequisite B2.
C3_Witness ==
    /\ op = "load"
    /\ source.opens /\ ~source.bad
    /\ source.lines = << << "A", "1", ",", "X" >>,
                         << "a", "-", "1", ",", "Y", ",", "B", "2" >> >>
    /\ DOMAIN courses = { << "A", "1" >> }
    /\ courses[<< "A", "1" >>].title = << "Y" >>
    /\ courses[<< "A", "1" >>].prereqNumbers = << << "B", "2" >> >>
    /\ cerr = << >>

(***************************************************************************)
(* C4.  A load of a fully read source is never aborted by a malformed      *)
(* line: cerr holds exactly one warning per non-blank line of fewer than   *)
(* two fields, each citing that line's 1-based position (blank lines are   *)
(* counted and not warned about); every well-formed line has its key in    *)
(* the table, and when those keys are distinct the table and the reported  *)
(* count hold one course per well-formed line.  The example file, five     *)
(* such lines and two of one field, loads 5 courses with 2 warnings.       *)
(***************************************************************************)
C4_MalformedLinesSkipped ==
    (op = "load" /\ source.opens /\ ~source.bad) =>
        LET lines  == source.lines
            shorts == positions(lines, shortLine)
            valids == positions(lines, validLine)
        IN  /\ ret = TRUE
            /\ cerr = [n \in 1..Len(shorts) |-> warn("malformed", shorts[n])]
            /\ \A n \in 1..Len(valids) : keyOf(lines[valids[n]]) \in DOMAIN courses
            /\ (\A m, n \in 1..Len(valids) :
                    m # n => keyOf(lines[valids[m]]) # keyOf(lines[valids[n]]))
                   => /\ Cardinality(DOMAIN courses) = Len(valids)
                      /\ cout = << say("loaded", << >>, << >>, Len(valids)) >>
            /\ lines = exampleFile =>
                   /\ Cardinality(DOMAIN courses) = 5
                   /\ cerr = << warn("malformed", 2), warn("malformed", 5) >>

\* A blank line, then a line of one field: one warning, citing line 2.
C4_Witness ==
    /\ op = "load"
    /\ source.opens /\ ~source.bad
    /\ Len(source.lines) = 2
    /\ blankLine(source.lines[1])
    /\ shortLine(source.lines[2])
    /\ cerr = << warn("malformed", 2) >>

(***************************************************************************)
(* C5.  A line of at least two fields whose identifier normalizes to the   *)
(* empty string adds no entry, is warned about with its line number, and   *)
(* the lines after it are still read.                                      *)
(***************************************************************************)
C5_EmptyIdWarned ==
    (op = "load" /\ source.opens /\ ~source.bad) =>
        \A i \in 1..Len(source.lines) :
            noIdLine(source.lines[i]) =>
                /\ << >> \notin DOMAIN courses
                /\ \E w \in 1..Len(cerr) : cerr[w][2] = i
                /\ \A j \in (i + 1)..Len(source.lines) :
                       validLine(source.lines[j]) =>
                           keyOf(source.lines[j]) \in DOMAIN courses

C7_DescribeResolvesPrerequisites ==
    (op = "describe" /\ loaded) =>
        LET query == normalizeCourseId(cinReads[1]) IN
        /\ Len(cinReads) = 1
        /\ query = << >> => cout = << say("noCourse", << >>, << >>, 0) >>
        /\ (query # << >> /\ query \notin DOMAIN courses)
               => cout = << say("notFound", << >>, << >>, 0) >>
        /\ query \in DOMAIN courses =>
               LET c  == courses[query]
                   ps == c.prereqNumbers
               IN  /\ cout[1] = say("course", c.number, c.title, 0)
                   /\ \A e \in 1..Len(cout) :
                          cout[e][1] \notin { "noCourse", "notFound" }
                   /\ ps = << >> =>
                          /\ Len(cout) = 2
                          /\ cout[2] = say("prereqNone", << >>, << >>, 0)
                   /\ ps # << >> =>
                          /\ Len(cout) = 1 + Len(ps)
                          /\ \A i \in 1..Len(ps) :
                                 cout[i + 1] =
                                     IF ps[i] \in DOMAIN courses
                                     THEN say("prereq", courses[ps[i]].number,
                                              courses[ps[i]].title, 0)
                                     ELSE say("missing", ps[i], << >>, 0)

\* B2 with prerequisites A1, which is in the table, and C9, which is not.
C7_Witness ==
    /\ op = "describe"
    /\ loaded
    /\ Len(cout) = 3
    /\ cout[1][1] = "course" /\ cout[1][2] = << "B", "2" >>
    /\ cout[2][1] = "prereq" /\ cout[2][2] = << "A", "1" >>
    /\ cout[3] = say("missing", << "C", "9" >>, << >>, 0)

(***************************************************************************)
(* C8.  A load whose source opens but whose reading stops on a read error  *)
(* returns failure and leaves the table, the sorted keys and the loaded    *)
(* flag untouched.                                                         *)
(***************************************************************************)
C8_ReadErrorPreservesCatalog ==
    [][ (op' = "load" /\ source'.opens /\ source'.bad)
            => (ret' = FALSE /\ catalogUnchanged) ]_vars

====
